---- MODULE Spec2Model ----
(***************************************************************************)
(* A model of claude.py: an interactive chat loop (chat) that reads a      *)
(* possibly multi-line input (read_multiline_input), routes it through     *)
(* the slash-command processor (process_commands) and otherwise sends the  *)
(* conversation to the model (ask_claude) and assembles the streamed       *)
(* reply.                                                                  *)
(*                                                                         *)
(* Text is a sequence of characters, each character a one-element string;  *)
(* the token "U+00E9" stands for the single non-ASCII character e-acute    *)
(* and "U+0060" for the grave accent, which a TLA+ string cannot hold.     *)
(***************************************************************************)
EXTENDS Integers, Sequences, FiniteSets, TLC

VARIABLES
    pc,                    \* where the chat loop stands
    lines,                 \* read_multiline_input: the lines collected so far
    user_input,            \* chat: the logical input of this iteration
    conversation_history,  \* chat: the list of Turns
    config,                \* chat: the ClaudeConfig instance
    file,                  \* the content of claude_hist.txt
    request,               \* the outbound request of this iteration, or NoRequest
    response_stream,       \* chat: the events of the response stream
    consumed,              \* how many of them the for loop has taken
    assistant_reply,       \* chat: the reply accumulated so far
    console,               \* what the iteration last reported on the console
    before                 \* history: conversation, configuration and log when
                           \* the loop last stood at the prompt

\* user_input, request, response_stream and assistant_reply are overwritten by
\* the next iteration before it reads them: the model empties them when an
\* iteration ends.
vars == <<pc, lines, user_input, conversation_history, config, file,
          request, response_stream, consumed, assistant_reply, console, before>>

-----------------------------------------------------------------------------
(* Characters and strings                                                  *)

\* The printable ASCII characters, code points 32..126 in order.
Printable ==
    <<" ", "!", "\"", "#", "$", "%", "&", "'", "(", ")", "*", "+", ",", "-",
      ".", "/", "0", "1", "2", "3", "4", "5", "6", "7", "8", "9", ":", ";",
      "<", "=", ">", "?", "@", "A", "B", "C", "D", "E", "F", "G", "H", "I",
      "J", "K", "L", "M", "N", "O", "P", "Q", "R", "S", "T", "U", "V", "W",
      "X", "Y", "Z", "[", "\\", "]", "^", "_", "U+0060", "a", "b", "c", "d", "e",
      "f", "g", "h", "i", "j", "k", "l", "m", "n", "o", "p", "q", "r", "s",
      "t", "u", "v", "w", "x", "y", "z", "{", "|", "}", "~">>

IsPrintable(c) == \E i \in 1..Len(Printable) : Printable[i] = c

\* Python's ord() on the characters of the model.
Ord(c) ==
    IF IsPrintable(c) THEN 31 + (CHOOSE i \in 1..Len(Printable) : Printable[i] = c)
    ELSE IF c = "\t" THEN 9
    ELSE IF c = "\n" THEN 10
    ELSE IF c = "\r" THEN 13
    ELSE 233    \* "U+00E9"

\* Python's chr() on the code points of the model.
Chr(n) ==
    IF n >= 32 /\ n <= 126 THEN Printable[n - 31]
    ELSE IF n = 9 THEN "\t"
    ELSE IF n = 10 THEN "\n"
    ELSE IF n = 13 THEN "\r"
    ELSE "U+00E9"

Digits == <<"0", "1", "2", "3", "4", "5", "6", "7", "8", "9">>

IsDigit(c) == \E i \in 1..10 : Digits[i] = c

DigitVal(c) == (CHOOSE i \in 1..10 : Digits[i] = c) - 1

\* str.isspace() for one character.
IsSpace(c) == c \in {" ", "\t", "\n", "\r"}

Last(q) == q[Len(q)]

\* str.startswith
StartsWith(s, p) == Len(s) >= Len(p) /\ SubSeq(s, 1, Len(p)) = p

\* s[n:]
SliceFrom(s, n) == SubSeq(s, n + 1, Len(s))

RECURSIVE LStrip(_)
LStrip(s) == IF s # <<>> /\ IsSpace(Head(s)) THEN LStrip(Tail(s)) ELSE s

RECURSIVE RStrip(_)
RStrip(s) ==
    IF s # <<>> /\ IsSpace(s[Len(s)]) THEN RStrip(SubSeq(s, 1, Len(s) - 1)) ELSE s

\* str.strip()
Strip(s) == RStrip(LStrip(s))

LowerChar(c) ==
    IF Ord(c) >= 65 /\ Ord(c) <= 90 THEN Chr(Ord(c) + 32) ELSE c

\* Mutant: letters keep their case.
LowerAsIs(s) == s

\* str.lower()
Lower(s) == [i \in 1..Len(s) |-> LowerChar(s[i])]

RECURSIVE Join(_, _)
\* sep.join(ls)
Join(sep, ls) ==
    IF ls = <<>> THEN <<>>
    ELSE IF Len(ls) = 1 THEN ls[1]
    ELSE ls[1] \o sep \o Join(sep, Tail(ls))

RECURSIVE Concat(_)
Concat(ls) == IF ls = <<>> THEN <<>> ELSE Head(ls) \o Concat(Tail(ls))

-----------------------------------------------------------------------------
(* int() and float()                                                       *)

\* A digit string that may hold single underscores between digits.
IsDigitRun(s) ==
    /\ s # <<>>
    /\ IsDigit(s[1]) /\ IsDigit(s[Len(s)])
    /\ \A i \in 1..Len(s) : IsDigit(s[i]) \/ s[i] = "_"
    /\ \A i \in 1..(Len(s) - 1) : ~(s[i] = "_" /\ s[i + 1] = "_")

RECURSIVE DigitRunVal(_, _)
DigitRunVal(s, acc) ==
    IF s = <<>> THEN acc
    ELSE IF Head(s) = "_" THEN DigitRunVal(Tail(s), acc)
    ELSE DigitRunVal(Tail(s), 10 * acc + DigitVal(Head(s)))

HasSign(s) == s # <<>> /\ s[1] \in {"+", "-"}

Unsigned(s) == IF HasSign(s) THEN Tail(s) ELSE s

SignOf(s) == IF s # <<>> /\ s[1] = "-" THEN -1 ELSE 1

\* Mutant: what is no number reads as 0, as C's atoi has it.
ParseIntLenient(s) ==
    LET t == Strip(s)
        body == Unsigned(t)
    IN  IF IsDigitRun(body)
        THEN [ok |-> TRUE, val |-> SignOf(t) * DigitRunVal(body, 0)]
        ELSE [ok |-> TRUE, val |-> 0]

\* int(s): [ok |-> FALSE] stands for ValueError.
ParseInt(s) ==
    LET t == Strip(s)
        body == Unsigned(t)
    IN  IF IsDigitRun(body)
        THEN [ok |-> TRUE, val |-> SignOf(t) * DigitRunVal(body, 0)]
        ELSE [ok |-> FALSE, val |-> 0]

\* The position of the first occurrence of c in s, or 0.
IndexOf(s, c) ==
    IF \E i \in 1..Len(s) : s[i] = c
    THEN CHOOSE i \in 1..Len(s) : s[i] = c /\ \A j \in 1..(i - 1) : s[j] # c
    ELSE 0

RECURSIVE Pow10(_)
Pow10(n) == IF n <= 0 THEN 1 ELSE 10 * Pow10(n - 1)

RECURSIVE Normal(_, _)
\* The decimal m * 10^e in lowest terms: one value per number.
Normal(m, e) ==
    IF m = 0 THEN [kind |-> "finite", m |-> 0, e |-> 0]
    ELSE IF m % 10 = 0 THEN Normal(m \div 10, e + 1)
    ELSE [kind |-> "finite", m |-> m, e |-> e]

\* The mantissa part of a float literal: digits, optionally with a point.
ParseMantissa(s) ==
    LET dot == IndexOf(s, ".")
        ip  == IF dot = 0 THEN s ELSE SubSeq(s, 1, dot - 1)
        fp  == IF dot = 0 THEN <<>> ELSE SliceFrom(s, dot)
        okI == ip = <<>> \/ IsDigitRun(ip)
        okF == fp = <<>> \/ IsDigitRun(fp)
        fd  == IF fp = <<>> THEN 0 ELSE Len(SelectSeq(fp, IsDigit))
    IN  IF okI /\ okF /\ (ip # <<>> \/ fp # <<>>)
        THEN [ok |-> TRUE,
              m  |-> DigitRunVal(ip, 0) * Pow10(fd) + DigitRunVal(fp, 0),
              e  |-> -fd]
        ELSE [ok |-> FALSE, m |-> 0, e |-> 0]

\* float(s): [ok |-> FALSE] stands for ValueError; a finite value is the
\* decimal val.m * 10^val.e, and inf (with the sign m) and nan are values of
\* their own kind.
ParseFloat(s) ==
    LET t    == Strip(s)
        body == Lower(Unsigned(t))
        ePos == IndexOf(body, "e")
        mant == IF ePos = 0 THEN body ELSE SubSeq(body, 1, ePos - 1)
        expo == IF ePos = 0 THEN <<"0">> ELSE SliceFrom(body, ePos)
        pm   == ParseMantissa(mant)
        okE  == IsDigitRun(Unsigned(expo))
        ev   == SignOf(expo) * DigitRunVal(Unsigned(expo), 0)
    IN  IF body \in {<<"i", "n", "f">>, <<"i", "n", "f", "i", "n", "i", "t", "y">>}
        THEN [ok |-> TRUE, val |-> [kind |-> "inf", m |-> SignOf(t), e |-> 0]]
        ELSE IF body = <<"n", "a", "n">>
        THEN [ok |-> TRUE, val |-> [kind |-> "nan", m |-> 0, e |-> 0]]
        ELSE IF pm.ok /\ okE
        THEN [ok |-> TRUE, val |-> Normal(SignOf(t) * pm.m, pm.e + ev)]
        ELSE [ok |-> FALSE, val |-> Normal(0, 0)]

RECURSIVE DigitsOf(_)
\* The decimal digits of a natural number, most significant first.
DigitsOf(n) ==
    IF n < 10 THEN <<Chr(48 + n)>>
    ELSE Append(DigitsOf(n \div 10), Chr(48 + (n % 10)))

\* str(n) of an int, as an f-string renders it.
FormatInt(n) == IF n < 0 THEN <<"-">> \o DigitsOf(-n) ELSE DigitsOf(n)

Zeros(n) == [i \in 1..n |-> "0"]

\* repr(x) of a float, as an f-string renders it: the shortest digits that
\* read back as x, in positional notation while the point falls within
\* 0.0001 .. 1e16 and in exponent notation outside.
FormatFloat(x) ==
    IF x.kind = "inf" THEN (IF x.m < 0 THEN <<"-">> ELSE <<>>) \o <<"i", "n", "f">>
    ELSE IF x.kind = "nan" THEN <<"n", "a", "n">>
    ELSE IF x.m = 0 THEN <<"0", ".", "0">>
    ELSE
        LET sign  == IF x.m < 0 THEN <<"-">> ELSE <<>>
            d     == DigitsOf(IF x.m < 0 THEN -x.m ELSE x.m)
            k     == Len(d)
            decpt == k + x.e
            ex    == decpt - 1
            exd   == DigitsOf(IF ex < 0 THEN -ex ELSE ex)
        IN  sign \o
            (IF decpt > 16 \/ decpt < -3 THEN
                 <<d[1]>> \o (IF k > 1 THEN <<".">> \o SubSeq(d, 2, k) ELSE <<>>)
                 \o <<"e", IF ex < 0 THEN "-" ELSE "+">>
                 \o (IF Len(exd) < 2 THEN <<"0">> ELSE <<>>) \o exd
             ELSE IF decpt <= 0 THEN <<"0", ".">> \o Zeros(-decpt) \o d
             ELSE IF decpt < k THEN SubSeq(d, 1, decpt) \o <<".">> \o SubSeq(d, decpt + 1, k)
             ELSE d \o Zeros(decpt - k) \o <<".", "0">>)

-----------------------------------------------------------------------------
(* ClaudeConfig and the Turns of the conversation                          *)

DefaultMaxTokens == 1024

\* 0.8 as the decimal 8 * 10^-1.
DefaultTemperature == Normal(8, -1)

DefaultModel ==
    <<"c", "l", "a", "u", "d", "e", "-", "3", "-", "5", "-", "s", "o", "n",
      "n", "e", "t", "-", "l", "a", "t", "e", "s", "t">>

DefaultSystemPrompt ==
    <<"Y", "o", "u", " ", "a", "r", "e", " ", "a", " ", "g", "o", "o", "d",
      " ", "C", "l", "a", "u", "d", "e", "!">>

\* ClaudeConfig()
ClaudeConfig ==
    [max_tokens    |-> DefaultMaxTokens,
     temperature   |-> DefaultTemperature,
     model         |-> DefaultModel,
     system_prompt |-> DefaultSystemPrompt]

system == <<"s", "y", "s", "t", "e", "m">>

user == <<"u", "s", "e", "r">>

assistant == <<"a", "s", "s", "i", "s", "t", "a", "n", "t">>

\* {"role": r, "content": c}
Turn(r, c) == [role |-> r, content |-> c]

-----------------------------------------------------------------------------
(* json.dump(conversation_history, file, indent=2)                         *)

HexDigits ==
    <<"0", "1", "2", "3", "4", "5", "6", "7", "8", "9", "a", "b", "c", "d",
      "e", "f">>

\* '{0:04x}'.format(n)
Hex4(n) ==
    <<HexDigits[((n \div 4096) % 16) + 1], HexDigits[((n \div 256) % 16) + 1],
      HexDigits[((n \div 16) % 16) + 1], HexDigits[(n % 16) + 1]>>

\* Mutant: the quotation mark is written as it is.
EscapeCharKeepsQuote(c) ==
    IF c = "\\" THEN <<"\\", "\\">>
    ELSE IF c = "\n" THEN <<"\\", "n">>
    ELSE IF c = "\r" THEN <<"\\", "r">>
    ELSE IF c = "\t" THEN <<"\\", "t">>
    ELSE IF IsPrintable(c) THEN <<c>>
    ELSE <<"\\", "u">> \o Hex4(Ord(c))

\* json.encoder: the replacement of one character under ensure_ascii.
EscapeChar(c) ==
    IF c = "\"" THEN <<"\\", "\"">>
    ELSE IF c = "\\" THEN <<"\\", "\\">>
    ELSE IF c = "\n" THEN <<"\\", "n">>
    ELSE IF c = "\r" THEN <<"\\", "r">>
    ELSE IF c = "\t" THEN <<"\\", "t">>
    ELSE IF IsPrintable(c) THEN <<c>>
    ELSE <<"\\", "u">> \o Hex4(Ord(c))

RECURSIVE EscapeAll(_)
EscapeAll(s) == IF s = <<>> THEN <<>> ELSE EscapeChar(Head(s)) \o EscapeAll(Tail(s))

\* json.encoder.py_encode_basestring_ascii
EncodeString(s) == <<"\"">> \o EscapeAll(s) \o <<"\"">>

RoleKey == <<"r", "o", "l", "e">>

ContentKey == <<"c", "o", "n", "t", "e", "n", "t">>

Indent(n) == [i \in 1..n |-> " "]

\* One dict of the list, at nesting level 1 of an indent of 2.
DumpTurn(t) ==
    Indent(2) \o <<"{", "\n">>
    \o Indent(4) \o EncodeString(RoleKey) \o <<":", " ">> \o EncodeString(t.role)
    \o <<",", "\n">>
    \o Indent(4) \o EncodeString(ContentKey) \o <<":", " ">> \o EncodeString(t.content)
    \o <<"\n">> \o Indent(2) \o <<"}">>

\* json.dumps(history, indent=2)
JsonDump(history) ==
    IF history = <<>> THEN <<"[", "]">>
    ELSE <<"[", "\n">>
         \o Join(<<",", "\n">>, [i \in 1..Len(history) |-> DumpTurn(history[i])])
         \o <<"\n", "]">>

\* The decimal digits of n, zero-padded to width w.
RECURSIVE Pad(_, _)
Pad(n, w) == IF w = 0 THEN <<>> ELSE Pad(n \div 10, w - 1) \o <<Digits[(n % 10) + 1]>>

\* datetime.strftime('%Y-%m-%d %H:%M:%S')
Strftime(t) ==
    Pad(t.year, 4) \o <<"-">> \o Pad(t.month, 2) \o <<"-">> \o Pad(t.day, 2)
    \o <<" ">> \o Pad(t.hour, 2) \o <<":">> \o Pad(t.minute, 2) \o <<":">>
    \o Pad(t.second, 2)

\* The first file.write of /save.
SaveHeader(now) == <<"\n">> \o Strftime(now) \o <<"\n">>

\* Everything one /save writes: the three writes of the with block.
SaveSection(history, now) == SaveHeader(now) \o JsonDump(history) \o <<"\n">>

-----------------------------------------------------------------------------
(* process_commands                                                        *)

CmdSys == <<"/", "s", "y", "s">>

CmdTemp == <<"/", "t", "e", "m", "p">>

CmdMax == <<"/", "m", "a", "x">>

CmdEnv == <<"/", "e", "n", "v">>

CmdSave == <<"/", "s", "a", "v", "e">>

CmdNew == <<"/", "n", "e", "w">>

CmdHelp == <<"/", "h", "e", "l", "p">>

CmdExit == <<"/", "e", "x", "i", "t">>

CmdQuit == <<"/", "q", "u", "i", "t">>

CmdBye == <<"/", "b", "y", "e">>

\* What the file system lets one /save do: write the whole section, or raise
\* OSError after `written` of its characters have reached the file.
IoOk == [ok |-> TRUE, written |-> 0]

IoFail(n) == [ok |-> FALSE, written |-> n]

\* Mutant: the history is emptied, system Turn and all.
ResetHistoryEmpty(history) == <<>>

\* Mutant: the system Turn is rebuilt from the default prompt.
ResetHistoryDefault(history) == <<Turn(system, DefaultSystemPrompt)>>

\* Mutant: the reset keeps the newest Turn as well.
ResetHistoryKeepsLast(history) == <<history[1], history[Len(history)]>>

\* conversation_history = [conversation_history[0]]
ResetHistory(history) == <<history[1]>>

\* Mutant: the history is reset before the log is written.
UnsavedHistoryReset(history) == <<history[1]>>

\* The history when a write of lines 89-91 has raised: line 92 was not
\* reached, the list is as it was.
UnsavedHistory(history) == history

\* Mutant: empty input is not taken for /help.
IsHelpOnly(input) == StartsWith(Lower(input), CmdHelp)

\* user_input.lower().startswith("/help") or user_input == ''
IsHelp(input) == StartsWith(Lower(input), CmdHelp) \/ input = <<>>

\* A line printed as it is.
Shown(text) == <<text>>

\* An exception that leaves the call, with its message.
Raised(message) == <<message>>

\* Mutant: /env reads the prompt from the Configuration, which /sys never
\* writes.
EnvReportFromConfig(history, cfg) ==
    <<"System prompt:", cfg.system_prompt,
      "Temperature:", FormatFloat(cfg.temperature),
      "Max tokens:", FormatInt(cfg.max_tokens)>>

\* The three lines /env prints: each label and the text after it.
EnvReport(history, cfg) ==
    <<"System prompt:", history[1].content,
      "Temperature:", FormatFloat(cfg.temperature),
      "Max tokens:", FormatInt(cfg.max_tokens)>>

\* The outcome of one call. `result` is the first element of the returned
\* tuple ("True", "None") or the exception that left the call ("ValueError",
\* "OSError", "SystemExit"); `history` and `config` are the other two elements
\* of the tuple; `shared` is the caller's list object as the call left it (the
\* call writes into its first dict in place, but rebinds only its own name);
\* `file` is the log afterwards and `console` what the call printed last (for
\* /env, all it printed), or the exception raised.
Outcome(result, history, shared, cfg, f, printed) ==
    [result |-> result, history |-> history, shared |-> shared,
     config |-> cfg, file |-> f, console |-> printed]

process_commands(input, history, cfg, f, now, io) ==
    IF StartsWith(input, CmdSys) THEN
        LET h == [history EXCEPT ![1].content = Strip(SliceFrom(input, 5))]
        IN  Outcome("True", h, h, cfg, f, Shown("System prompt changed to"))
    ELSE IF StartsWith(input, CmdTemp) THEN
        LET v == ParseFloat(Strip(SliceFrom(input, 5)))
        IN  IF v.ok
            THEN Outcome("True", history, history,
                         [cfg EXCEPT !.temperature = v.val], f,
                         Shown("Temperature changed to"))
            ELSE Outcome("ValueError", history, history, cfg, f,
                         Raised("could not convert string to float"))
    ELSE IF StartsWith(input, CmdMax) THEN
        LET v == ParseInt(Strip(SliceFrom(input, 4)))
        IN  IF v.ok
            THEN Outcome("True", history, history,
                         [cfg EXCEPT !.max_tokens = v.val], f,
                         Shown("Max tokens changed to"))
            ELSE Outcome("ValueError", history, history, cfg, f,
                         Raised("invalid literal for int() with base 10"))
    ELSE IF Lower(input) = CmdEnv THEN
        Outcome("True", history, history, cfg, f, EnvReport(history, cfg))
    ELSE IF Lower(input) = CmdSave THEN
        LET section == SaveSection(history, now)
        IN  IF io.ok
            THEN Outcome("True", ResetHistory(history), history, cfg, f \o section,
                         Shown("Conversation appended to log"))
            ELSE Outcome("OSError", UnsavedHistory(history), UnsavedHistory(history), cfg,
                         f \o SubSeq(section, 1, io.written),
                         Raised("[Errno 28] No space left on device"))
    ELSE IF Lower(input) = CmdNew THEN
        Outcome("True", ResetHistory(history), history, cfg, f,
                Shown("Conversation history cleared."))
    ELSE IF IsHelp(input) THEN
        Outcome("True", history, history, cfg, f, Shown("/help - Show this help"))
    ELSE IF Lower(input) \in {CmdExit, CmdQuit, CmdBye} THEN
        Outcome("SystemExit", history, history, cfg, f, Shown("Exiting gracefully..."))
    ELSE
        Outcome("None", history, history, cfg, f, Shown(""))

-----------------------------------------------------------------------------
(* ask_claude                                                              *)

NoRequest == [sent |-> FALSE]

\* Mutant: only the newest message is sent.
FormatMessagesLastOnly(messages) ==
    <<[role    |-> user, content |-> messages[Len(messages)].content]>>

\* messages_formatted
FormatMessages(messages) ==
    [i \in 1..(Len(messages) - 1) |->
        [role    |-> IF messages[i + 1].role = assistant THEN assistant ELSE user,
         content |-> messages[i + 1].content]]

\* Mutant: the system instruction is read from the Configuration.
CreateRequestFromConfig(messages, cfg) ==
    [sent        |-> TRUE,
     model       |-> cfg.model,
     system      |-> cfg.system_prompt,
     messages    |-> FormatMessages(messages),
     max_tokens  |-> cfg.max_tokens,
     temperature |-> cfg.temperature,
     stream      |-> TRUE]

\* The arguments of client.messages.create.
CreateRequest(messages, cfg) ==
    [sent        |-> TRUE,
     model       |-> cfg.model,
     system      |-> messages[1].content,
     messages    |-> FormatMessages(messages),
     max_tokens  |-> cfg.max_tokens,
     temperature |-> cfg.temperature,
     stream      |-> TRUE]

\* The events of a stream: text deltas, and events of the other types.
Delta(text) == [type |-> "content_block_delta", text |-> text]

Event(type) == [type |-> type, text |-> <<>>]

-----------------------------------------------------------------------------
(* The environment: what the user types, what the service answers, what    *)
(* the clock and the file system do                                        *)

\* The user sends an ordinary message only while the conversation holds at
\* most this many Turns.
MaxHistory == 2

\* The user ends a continuation after at most this many further lines.
MaxCont == 1

\* The room, in characters, the file system has for claude_hist.txt.
SmallDisk == 100

\* An ordinary message, with a trailing blank.
LineHi == <<"H", "i", " ">>

LineMarker == <<"\\", "a">>

LineSys == <<"/", "s", "y", "s", " ", " ", "p", " ">>

LineSysGlued == <<"/", "s", "y", "s", "q", " ", "p">>

LineSysJson == <<"/", "s", "y", "s", " ", "\"", "\\", "U+00E9">>

LineTemp == <<"/", "t", "e", "m", "p", " ", "0", ".", "5">>

LineTempBad == <<"/", "t", "e", "m", "p", " ", "a", "b", "c">>

LineMax == <<"/", "m", "a", "x", " ", "9">>

LineMaxBad == <<"/", "m", "a", "x", " ", "x">>

LineMaxZero == <<"/", "m", "a", "x", " ", "0">>

LineMaxNegative == <<"/", "m", "a", "x", " ", "-", "5">>

LineEnv == <<"/", "e", "n", "v">>

LineSave == <<"/", "s", "a", "v", "e">>

LineNew == <<"/", "N", "e", "w">>

LineHelp == <<"/", "h", "e", "l", "p">>

LineEmpty == <<>>

LineExit == <<"/", "e", "x", "i", "t">>

LineQuit == <<"/", "Q", "U", "I", "T">>

\* The commands that leave the Configuration alone.
CommandLines ==
    {LineSys, LineSysGlued, LineTempBad, LineMaxBad, LineEnv, LineSave,
     LineNew, LineHelp, LineEmpty, LineExit, LineQuit}

StreamHiThere ==
    <<Event("message_start"), Delta(<<"H", "i">>),
      Delta(<<" ", "t", "h", "e", "r", "e">>)>>

Midnight ==
    [year |-> 2024, month |-> 1, day |-> 1, hour |-> 0, minute |-> 0, second |-> 0]

Afternoon ==
    [year |-> 2025, month |-> 12, day |-> 31, hour |-> 13, minute |-> 5, second |-> 59]

\* What a session is given: the lines the user types at the prompt (`lines`,
\* and `tail` once the session has written to the log), the lines of a
\* continuation, the streams the service answers with, the clock's readings,
\* the log the session finds, the room of the disk, how many Turns the
\* conversation may hold for the user to send one more ordinary message, and
\* where a failing /save may stop: before anything is written ("open") or
\* half way ("half").
Env ==
    [lines   |-> CommandLines \cup {LineHi, LineMarker},
     tail    |-> CommandLines \cup {LineHi, LineMarker},
     cont    |-> {<<"b">>},
     streams |-> {StreamHiThere},
     clock   |-> {Midnight},
     files   |-> {<<>>},
     quota   |-> SmallDisk,
     turns   |-> MaxHistory,
     cuts    |-> {"open"}]

ConfigLines ==
    {LineTemp, LineTempBad, LineMax, LineMaxBad, LineMaxZero, LineMaxNegative,
     LineEnv, LineHelp, LineEmpty, LineSys, LineHi, LineMarker, LineExit}

\* A session about the Configuration: every /temp and /max line.
EnvConfig ==
    [lines   |-> ConfigLines,
     tail    |-> ConfigLines,
     cont    |-> {<<"b">>},
     streams |-> {StreamHiThere},
     clock   |-> {Midnight},
     files   |-> {<<>>},
     quota   |-> SmallDisk,
     turns   |-> MaxHistory,
     cuts    |-> {"open"}]

\* The room of a larger disk.
LargeDisk == 330

\* A log an earlier session left behind.
OldLog == SaveSection(<<Turn(system, <<"x">>)>>, Midnight)

\* A session about the log: a disk with room for whole conversations, a
\* system prompt of characters that JSON escapes, writes that stop half way,
\* and a user who, once the log has been written to, only saves or leaves.
EnvLog ==
    [lines   |-> {LineHi, LineMarker, LineSysJson, LineSave, LineNew, LineExit},
     tail    |-> {LineSave, LineExit},
     cont    |-> {<<"b">>},
     streams |-> {StreamHiThere},
     clock   |-> {Afternoon},
     files   |-> {<<>>, OldLog},
     quota   |-> LargeDisk,
     turns   |-> MaxHistory,
     cuts    |-> {"open", "half"}]

\* A session about multi-line input: after the marker line the user types
\* lines that might be taken for a terminator (an empty line, another marker
\* line, an exit command) before end-of-input.
EnvInput ==
    [lines   |-> {LineHi, LineMarker, LineExit},
     tail    |-> {LineHi, LineMarker, LineExit},
     cont    |-> {LineEmpty, LineMarker, LineExit},
     streams |-> {StreamHiThere},
     clock   |-> {Midnight},
     files   |-> {<<>>},
     quota   |-> SmallDisk,
     turns   |-> MaxHistory,
     cuts    |-> {"open"}]

UpperChar(c) ==
    IF Ord(c) >= 97 /\ Ord(c) <= 122 THEN Chr(Ord(c) - 32) ELSE c

RECURSIVE CaseVariants(_)
\* The text in every mix of upper and lower case.
CaseVariants(s) ==
    IF s = <<>> THEN {<<>>}
    ELSE {<<c>> \o t : c \in {s[1], UpperChar(s[1])}, t \in CaseVariants(Tail(s))}

\* Every spelling of the commands that take no argument.
NoArgumentLines ==
    UNION {CaseVariants(t) :
              t \in {CmdEnv, CmdSave, CmdNew, CmdHelp, CmdExit, CmdQuit, CmdBye}}

\* The commands that take an argument, in every spelling but the lowercase
\* one, each with an argument that the lowercase command would accept.
MiscasedArgumentLines ==
    {t \o <<" ", "x">> : t \in CaseVariants(CmdSys) \ {CmdSys}}
    \cup {t \o <<" ", "0", ".", "5">> : t \in CaseVariants(CmdTemp) \ {CmdTemp}}
    \cup {t \o <<" ", "9">> : t \in CaseVariants(CmdMax) \ {CmdMax}}

\* The miscased lines the user of a session types.
MiscasedLines ==
    {<<"/", "S", "Y", "S", " ", "x">>,
     <<"/", "T", "e", "m", "p", " ", "0", ".", "5">>,
     <<"/", "m", "a", "X", " ", "9">>}

\* A session about letter case.  The user sends one ordinary message less
\* than elsewhere: every miscased line is one.
EnvCase ==
    [lines   |-> NoArgumentLines \cup MiscasedLines \cup {LineMarker},
     tail    |-> NoArgumentLines \cup MiscasedLines \cup {LineMarker},
     cont    |-> {<<"b">>},
     streams |-> {StreamHiThere},
     clock   |-> {Midnight},
     files   |-> {<<>>},
     quota   |-> SmallDisk,
     turns   |-> MaxHistory - 1,
     cuts    |-> {"open"}]

-----------------------------------------------------------------------------
(* chat and read_multiline_input                                           *)

Snapshot(history, cfg, f) == [history |-> history, config |-> cfg, file |-> f]

Init(E) ==
    /\ pc = "awaiting_input"
    /\ lines = <<>>
    /\ user_input = <<>>
    /\ config = ClaudeConfig
    /\ conversation_history = <<Turn(system, ClaudeConfig.system_prompt)>>
    /\ file \in E.files
    /\ request = NoRequest
    /\ response_stream = <<>>
    /\ consumed = 0
    /\ assistant_reply = <<>>
    /\ console = Shown("")
    /\ before = Snapshot(conversation_history, config, file)

\* Whether process_commands takes the line for a command.
Recognized(line) ==
    process_commands(line, <<Turn(system, <<>>)>>, ClaudeConfig, <<>>, Midnight,
                     IoFail(0)).result # "None"

\* Mutant: the loop has no `except Exception` clause.
HandlerWithoutExcept(exception) ==
    CASE exception = "KeyboardInterrupt" -> "awaiting_input"
      [] OTHER -> "exited"

\* chat: where the except clauses of the loop leave it.  SystemExit passes
\* all three.
Handler(exception) ==
    CASE exception = "EOFError" -> "exited"
      [] exception = "SystemExit" -> "exited"
      [] exception = "KeyboardInterrupt" -> "awaiting_input"
      [] OTHER -> "awaiting_input"

\* chat: print(f"Error: {e}")
Report(message) == <<"Error:", message>>

\* What the service's client raises.
APIError == "Connection error."

\* Mutant: the input is trimmed before it is recorded.
UserTurnTrimmed(input) == Turn(user, Strip(input))

\* {"role": "user", "content": user_input}
UserTurn(input) == Turn(user, input)

\* Mutant: the reply is recorded without the line break.
ReplyTurnBare(reply) == Turn(assistant, reply)

\* {"role": "assistant", "content": assistant_reply + "\n"}
ReplyTurn(reply) == Turn(assistant, reply \o <<"\n">>)

\* The body of `for chunk in response_stream`.
Accumulate(reply, chunk) ==
    IF chunk.type = "content_block_delta" THEN reply \o chunk.text ELSE reply

\* The iteration is over: the loop stands at the prompt again, or has left.
EndIteration ==
    /\ lines' = <<>>
    /\ user_input' = <<>>
    /\ request' = NoRequest
    /\ response_stream' = <<>>
    /\ consumed' = 0
    /\ assistant_reply' = <<>>
    /\ before' = Snapshot(conversation_history', config', file')

\* read_multiline_input, the first input(): a line arrives.
ReadLine(E) ==
    /\ pc = "awaiting_input"
    /\ \E line \in (IF file \in E.files THEN E.lines ELSE E.tail) :
        /\ Recognized(line) \/ Len(conversation_history) <= E.turns
        /\ IF StartsWith(line, <<"\\">>)
           THEN /\ lines' = <<line>>
                /\ pc' = "continuation"
                /\ UNCHANGED user_input
           ELSE /\ lines' = <<>>
                /\ user_input' = line
                /\ pc' = "dispatching"
    /\ console' = Shown("You: ")
    /\ UNCHANGED <<conversation_history, config, file, request, response_stream,
                   consumed, assistant_reply, before>>

\* read_multiline_input, the first input(): EOFError, then sys.exit().
ReadEOF ==
    /\ pc = "awaiting_input"
    /\ pc' = Handler("SystemExit")
    /\ console' = Shown("You: ")
    /\ UNCHANGED <<lines, user_input, conversation_history, config, file, request,
                   response_stream, consumed, assistant_reply, before>>

\* Mutant: an empty line ends the continuation.
ContinueEOFOnEmptyLine ==
    /\ pc = "continuation"
    /\ user_input' = Join(<<"\n">>, IF Last(lines) = <<>> /\ Len(lines) > 1
                                    THEN SubSeq(lines, 1, Len(lines) - 1)
                                    ELSE lines)
    /\ lines' = <<>>
    /\ pc' = "dispatching"
    /\ console' = Shown("<end of input>")
    /\ UNCHANGED <<conversation_history, config, file, request, response_stream,
                   consumed, assistant_reply, before>>

\* read_multiline_input, a later input(): one more line, whatever it holds.
ContinueLine(E) ==
    /\ pc = "continuation"
    /\ Len(lines) <= MaxCont
    /\ \E line \in E.cont : lines' = Append(lines, line)
    /\ UNCHANGED <<pc, user_input, conversation_history, config, file, request,
                   response_stream, consumed, assistant_reply, console, before>>

\* read_multiline_input, a later input(): EOFError ends the continuation.
ContinueEOF ==
    /\ pc = "continuation"
    /\ user_input' = Join(<<"\n">>, lines)
    /\ lines' = <<>>
    /\ pc' = "dispatching"
    /\ console' = Shown("<end of input>")
    /\ UNCHANGED <<conversation_history, config, file, request, response_stream,
                   consumed, assistant_reply, before>>

\* What the file system may do to a /save of `history` onto the log f.
IoChoices(E, history, f, now) ==
    LET section == SaveSection(history, now)
        room    == E.quota - Len(f)
        cuts    == (IF "open" \in E.cuts THEN {0} ELSE {})
                   \cup (IF "header" \in E.cuts THEN {Len(SaveHeader(now))} ELSE {})
                   \cup (IF "half" \in E.cuts THEN {Len(section) \div 2} ELSE {})
    IN  (IF Len(section) <= room THEN {IoOk} ELSE {})
        \cup {IoFail(n) : n \in {k \in cuts \cup {0} : k <= room}}

\* Every way the call of process_commands of this iteration can end.
Calls(E) ==
    IF Lower(user_input) = CmdSave
    THEN UNION {{process_commands(user_input, conversation_history, config, file, now, io) :
                    io \in IoChoices(E, conversation_history, file, now)} :
                now \in E.clock}
    ELSE {process_commands(user_input, conversation_history, config, file, Midnight, IoOk)}

\* chat: the call of process_commands, the test of its result, and for an
\* ordinary message the append of the user Turn.
Dispatch(E) ==
    /\ pc = "dispatching"
    /\ \E r \in Calls(E) :
        /\ file' = r.file
        /\ CASE r.result = "True" ->
                  /\ conversation_history' = r.history
                  /\ config' = r.config
                  /\ console' = r.console
                  /\ pc' = "awaiting_input"
                  /\ EndIteration
             [] r.result = "None" ->
                  /\ conversation_history' = Append(r.history, UserTurn(user_input))
                  /\ config' = r.config
                  /\ pc' = "awaiting_model"
                  /\ UNCHANGED <<lines, user_input, request, response_stream,
                                 consumed, assistant_reply, console, before>>
             [] r.result = "SystemExit" ->
                  /\ conversation_history' = r.shared
                  /\ config' = config
                  /\ console' = r.console
                  /\ pc' = Handler("SystemExit")
                  /\ EndIteration
             [] OTHER ->
                  /\ conversation_history' = r.shared
                  /\ config' = config
                  /\ console' = Report(r.console[1])
                  /\ pc' = Handler(r.result)
                  /\ EndIteration

\* chat: ask_claude returns the stream.
Request(E) ==
    /\ pc = "awaiting_model"
    /\ request' = CreateRequest(conversation_history, config)
    /\ \E s \in E.streams : response_stream' = s
    /\ consumed' = 0
    /\ assistant_reply' = <<>>
    /\ pc' = "streaming"
    /\ console' = Shown("")
    /\ UNCHANGED <<lines, user_input, conversation_history, config, file, before>>

\* Mutant: a failed request takes the user Turn back.
RequestFailsRollsBack ==
    /\ pc = "awaiting_model"
    /\ pc' = Handler("APIError")
    /\ console' = Report(APIError)
    /\ conversation_history' = before.history
    /\ UNCHANGED <<config, file>>
    /\ EndIteration

\* chat: client.messages.create raises; `except Exception` reports it.
RequestFails ==
    /\ pc = "awaiting_model"
    /\ pc' = Handler("APIError")
    /\ console' = Report(APIError)
    /\ UNCHANGED <<conversation_history, config, file>>
    /\ EndIteration

\* chat: one turn of `for chunk in response_stream`.
NextChunk ==
    /\ pc = "streaming"
    /\ consumed < Len(response_stream)
    /\ assistant_reply' = Accumulate(assistant_reply, response_stream[consumed + 1])
    /\ consumed' = consumed + 1
    /\ console' = Shown("chunk")
    /\ UNCHANGED <<pc, lines, user_input, conversation_history, config, file,
                   request, response_stream, before>>

\* chat: the stream raises while it is consumed; `except Exception` reports it.
StreamFails ==
    /\ pc = "streaming"
    /\ pc' = Handler("APIError")
    /\ console' = Report(APIError)
    /\ UNCHANGED <<conversation_history, config, file>>
    /\ EndIteration

\* chat: the stream is exhausted; the assistant Turn is appended.
StreamEnd ==
    /\ pc = "streaming"
    /\ consumed = Len(response_stream)
    /\ conversation_history' = Append(conversation_history, ReplyTurn(assistant_reply))
    /\ pc' = "awaiting_input"
    /\ console' = Shown("\n")
    /\ UNCHANGED <<config, file>>
    /\ EndIteration

\* chat: KeyboardInterrupt while the console is read.
InterruptRead ==
    /\ pc \in {"awaiting_input", "continuation"}
    /\ pc' = Handler("KeyboardInterrupt")
    /\ console' = Shown("Interrupted!")
    /\ UNCHANGED <<conversation_history, config, file>>
    /\ EndIteration

\* chat: KeyboardInterrupt during process_commands: before it has done
\* anything, after its work but before the tuple is assigned (what it wrote
\* in place and to the file stays, what it rebound is lost), or after the
\* assignment.
InterruptDispatch(E) ==
    /\ pc = "dispatching"
    /\ \E r \in Calls(E) :
        \/ UNCHANGED <<conversation_history, config, file>>
        \/ /\ conversation_history' = r.shared
           /\ config' = IF r.result = "True" THEN r.config ELSE config
           /\ file' = r.file
        \/ /\ r.result \in {"True", "None"}
           /\ conversation_history' = r.history
           /\ config' = r.config
           /\ file' = r.file
    /\ pc' = Handler("KeyboardInterrupt")
    /\ console' = Shown("Interrupted!")
    /\ EndIteration

\* Mutant: the handler records what the reply had come to.
InterruptModelKeepsPartial ==
    /\ pc \in {"awaiting_model", "streaming"}
    /\ conversation_history' =
           IF pc = "streaming"
           THEN Append(conversation_history, ReplyTurn(assistant_reply))
           ELSE conversation_history
    /\ pc' = Handler("KeyboardInterrupt")
    /\ console' = Shown("Interrupted!")
    /\ UNCHANGED <<config, file>>
    /\ EndIteration

\* chat: KeyboardInterrupt in ask_claude or while the stream is consumed: the
\* request is abandoned and the reply so far is dropped.  After the last
\* event the interrupt may also fall behind the append of line 137.
InterruptModel ==
    /\ pc \in {"awaiting_model", "streaming"}
    /\ \/ UNCHANGED conversation_history
       \/ /\ pc = "streaming" /\ consumed = Len(response_stream)
          /\ conversation_history' = Append(conversation_history, ReplyTurn(assistant_reply))
    /\ pc' = Handler("KeyboardInterrupt")
    /\ console' = Shown("Interrupted!")
    /\ UNCHANGED <<config, file>>
    /\ EndIteration

Next(E) ==
    \/ ReadLine(E)
    \/ ReadEOF
    \/ ContinueLine(E)
    \/ ContinueEOF
    \/ Dispatch(E)
    \/ Request(E)
    \/ RequestFails
    \/ NextChunk
    \/ StreamFails
    \/ StreamEnd
    \/ InterruptRead
    \/ InterruptDispatch(E)
    \/ InterruptModel

InitSpec == Init(Env)

NextSpec == Next(Env)

Spec == InitSpec /\ [][NextSpec]_vars

InitConfig == Init(EnvConfig)

NextConfig == Next(EnvConfig)

SpecConfig == InitConfig /\ [][NextConfig]_vars

InitLog == Init(EnvLog)

NextLog == Next(EnvLog)

SpecLog == InitLog /\ [][NextLog]_vars

InitInput == Init(EnvInput)

NextInput == Next(EnvInput)

SpecInput == InitInput /\ [][NextInput]_vars

InitCase == Init(EnvCase)

NextCase == Next(EnvCase)

SpecCase == InitCase /\ [][NextCase]_vars

-----------------------------------------------------------------------------
(* Reading the log back.  The program never reads claude_hist.txt; this is  *)
(* the reader the round trip is stated against: JSON's grammar for an      *)
(* array of objects whose members are strings.                             *)

JsonFail == [ok |-> FALSE, val |-> <<>>, next |-> 0]

JsonOk(v, n) == [ok |-> TRUE, val |-> v, next |-> n]

RECURSIVE SkipWs(_, _)
SkipWs(s, i) == IF i <= Len(s) /\ IsSpace(s[i]) THEN SkipWs(s, i + 1) ELSE i

IsHex(c) == \E k \in 1..16 : HexDigits[k] = LowerChar(c)

HexVal(c) == (CHOOSE k \in 1..16 : HexDigits[k] = LowerChar(c)) - 1

\* The characters after a backslash that stand for one character (\b and \f
\* stand for characters no text of the model holds).
Unescape(c) ==
    CASE c = "n" -> "\n"
      [] c = "r" -> "\r"
      [] c = "t" -> "\t"
      [] OTHER -> c

RECURSIVE ScanString(_, _, _)
\* The string whose opening quotation mark stands before position i.
ScanString(s, i, acc) ==
    IF i > Len(s) THEN JsonFail
    ELSE IF s[i] = "\"" THEN JsonOk(acc, i + 1)
    ELSE IF s[i] = "\\" THEN
        IF i + 1 > Len(s) THEN JsonFail
        ELSE IF s[i + 1] = "u" THEN
            IF i + 5 <= Len(s) /\ \A k \in 2..5 : IsHex(s[i + k])
            THEN ScanString(s, i + 6,
                     Append(acc, Chr(4096 * HexVal(s[i + 2]) + 256 * HexVal(s[i + 3])
                                     + 16 * HexVal(s[i + 4]) + HexVal(s[i + 5]))))
            ELSE JsonFail
        ELSE IF s[i + 1] \in {"\"", "\\", "/", "n", "r", "t"}
        THEN ScanString(s, i + 2, Append(acc, Unescape(s[i + 1])))
        ELSE JsonFail
    ELSE IF Ord(s[i]) < 32 THEN JsonFail
    ELSE ScanString(s, i + 1, Append(acc, s[i]))

StringAt(s, i) ==
    IF i <= Len(s) /\ s[i] = "\"" THEN ScanString(s, i + 1, <<>>) ELSE JsonFail

RECURSIVE ScanMembers(_, _, _)
\* The members of an object from position i, a key, on; acc maps the keys
\* read so far to their values.
ScanMembers(s, i, acc) ==
    LET k == StringAt(s, i)
        c == SkipWs(s, k.next)
        v == StringAt(s, SkipWs(s, c + 1))
        e == SkipWs(s, v.next)
        m == [x \in DOMAIN acc \cup {k.val} |-> IF x = k.val THEN v.val ELSE acc[x]]
    IN  IF ~k.ok \/ c > Len(s) \/ s[c] # ":" THEN JsonFail
        ELSE IF ~v.ok \/ e > Len(s) THEN JsonFail
        ELSE IF s[e] = "," THEN ScanMembers(s, SkipWs(s, e + 1), m)
        ELSE IF s[e] = "}" THEN JsonOk(m, e + 1)
        ELSE JsonFail

ObjectAt(s, i) ==
    IF i > Len(s) \/ s[i] # "{" THEN JsonFail
    ELSE LET j == SkipWs(s, i + 1)
         IN  IF j <= Len(s) /\ s[j] = "}" THEN JsonOk(<<>>, j + 1)
             ELSE ScanMembers(s, j, <<>>)

\* The dict {"role": r, "content": c} as a Turn; any other object as it is.
AsTurn(m) ==
    IF DOMAIN m = {RoleKey, ContentKey}
    THEN Turn(m[RoleKey], m[ContentKey])
    ELSE m

RECURSIVE ScanElements(_, _, _)
ScanElements(s, i, acc) ==
    LET o == ObjectAt(s, i)
        e == SkipWs(s, o.next)
    IN  IF ~o.ok \/ e > Len(s) THEN JsonFail
        ELSE IF s[e] = "," THEN ScanElements(s, SkipWs(s, e + 1), Append(acc, AsTurn(o.val)))
        ELSE IF s[e] = "]" THEN JsonOk(Append(acc, AsTurn(o.val)), e + 1)
        ELSE JsonFail

\* json.loads of a text that holds one array and nothing after it.
JsonLoads(s) ==
    LET i == SkipWs(s, 1)
        a == IF i > Len(s) \/ s[i] # "[" THEN JsonFail
             ELSE LET j == SkipWs(s, i + 1)
                  IN  IF j <= Len(s) /\ s[j] = "]" THEN JsonOk(<<>>, j + 1)
                      ELSE ScanElements(s, j, <<>>)
    IN  IF a.ok /\ SkipWs(s, a.next) = Len(s) + 1 THEN a ELSE JsonFail

\* A line of the form YYYY-MM-DD HH:MM:SS.
IsStamp(t) ==
    /\ Len(t) = 19
    /\ t[5] = "-" /\ t[8] = "-" /\ t[11] = " " /\ t[14] = ":" /\ t[17] = ":"
    /\ \A i \in (1..19) \ {5, 8, 11, 14, 17} : IsDigit(t[i])

\* Where the timestamp lines of the log begin: one per section.
StampStarts(f) ==
    {i \in 1..(Len(f) - 18) :
        /\ i = 1 \/ f[i - 1] = "\n"
        /\ IsStamp(SubSeq(f, i, i + 18))
        /\ i + 19 > Len(f) \/ f[i + 19] = "\n"}

\* A section as /save appends it: a line break, the timestamp line, the JSON
\* text, a line break.  The value is the conversation the JSON text holds.
SectionOf(text) ==
    IF /\ Len(text) > 21 /\ text[1] = "\n" /\ text[21] = "\n"
       /\ IsStamp(SubSeq(text, 2, 20)) /\ text[Len(text)] = "\n"
    THEN JsonLoads(SliceFrom(text, 21))
    ELSE JsonFail

\* The last section of a log that holds one.
LastSection(f) ==
    LET last == CHOOSE i \in StampStarts(f) : \A j \in StampStarts(f) : j <= i
    IN  SectionOf(SubSeq(f, last - 1, Len(f)))

IsPrefix(s, t) == Len(s) <= Len(t) /\ SubSeq(t, 1, Len(s)) = s

\* The texts of the content_block_delta events, in order, as one text.
RECURSIVE FragmentText(_)
FragmentText(events) ==
    IF events = <<>> THEN <<>>
    ELSE (IF Head(events).type = "content_block_delta" THEN Head(events).text ELSE <<>>)
         \o FragmentText(Tail(events))

CommandTokens ==
    {CmdSys, CmdTemp, CmdMax, CmdEnv, CmdSave, CmdNew, CmdHelp, CmdExit, CmdQuit, CmdBye}

\* The input begins with no command token, in whatever letter case.
NoCommandPrefix(input) ==
    input # <<>> /\ \A t \in CommandTokens : ~StartsWith(Lower(input), t)

\* The input is a command as the command reference has it.
IsCommandInput(input) ==
    \/ input = <<>>
    \/ \E t \in {CmdSys, CmdTemp, CmdMax} : StartsWith(input, t)
    \/ StartsWith(Lower(input), CmdHelp)
    \/ Lower(input) \in {CmdEnv, CmdSave, CmdNew, CmdExit, CmdQuit, CmdBye}

\* The text holds no digit and names neither infinity nor NaN: no number.
NonNumeric(arg) ==
    /\ \A i \in 1..Len(arg) : ~IsDigit(arg[i])
    /\ Lower(Unsigned(Strip(arg))) \notin
           {<<"i", "n", "f">>, <<"i", "n", "f", "i", "n", "i", "t", "y">>, <<"n", "a", "n">>}

ErrorReports ==
    {Report(m) : m \in {"could not convert string to float",
                        "invalid literal for int() with base 10",
                        "[Errno 28] No space left on device",
                        APIError}}

-----------------------------------------------------------------------------
(* Properties                                                              *)

\* C1: in every reachable state the Conversation is non-empty, its Turn at
\* index 0 has role system, and no later Turn has role system.
C1_SystemTurnFirstAndOnly ==
    /\ Len(conversation_history) >= 1
    /\ conversation_history[1].role = system
    /\ \A i \in 2..Len(conversation_history) : conversation_history[i].role # system

\* C1 witness: back at the prompt after an interrupt, with a system prompt a
\* /sys command set and two Turns of chat behind it.
C1_Witness ==
    /\ pc = "awaiting_input"
    /\ console = Shown("Interrupted!")
    /\ Len(conversation_history) >= 3
    /\ conversation_history[1].content # DefaultSystemPrompt

\* C2: when the stream of an ordinary input is exhausted without error, the
\* Conversation is the one before the input plus a user Turn holding the raw
\* input and an assistant Turn holding the fragments in order and one line
\* break, and the loop awaits input.
C2_ReplyAppended ==
    [][(pc = "streaming" /\ console' = Shown("\n")) =>
          /\ pc' = "awaiting_input"
          /\ conversation_history' =
                 before.history \o
                 <<Turn(user, user_input),
                   Turn(assistant, FragmentText(response_stream) \o <<"\n">>)>>]_vars

\* C2 witness: "Hi " was answered by the fragments "Hi" and " there".
C2_Witness ==
    /\ pc = "awaiting_input"
    /\ console = Shown("\n")
    /\ Len(conversation_history) = 3
    /\ conversation_history[2] = Turn(user, LineHi)
    /\ conversation_history[3] =
           Turn(assistant, <<"H", "i", " ", "t", "h", "e", "r", "e", "\n">>)

\* C3: an input with no command prefix is not taken for a command, leaves
\* Conversation, Configuration and log as they are, and the user Turn the
\* loop appends and sends holds exactly the input.
C3_OrdinaryInputForwarded ==
    [][/\ (pc = "dispatching" /\ NoCommandPrefix(user_input)
              /\ console' # Shown("Interrupted!")) =>
            /\ pc' = "awaiting_model"
            /\ conversation_history' =
                   Append(conversation_history, Turn(user, user_input))
            /\ config' = config
            /\ file' = file
       /\ (pc = "awaiting_model" /\ NoCommandPrefix(user_input)
              /\ pc' = "streaming") =>
            /\ request'.sent
            /\ Last(request'.messages) = Turn(user, user_input)]_vars

\* C3 witness: the two-line input of a continuation has been sent as typed.
C3_Witness ==
    /\ pc = "streaming"
    /\ user_input = <<"\\", "a", "\n", "b">>
    /\ Last(request.messages).content = user_input
    /\ Last(conversation_history) = Turn(user, user_input)

\* C4: an input that is a command (empty input and a command whose argument
\* does not parse included) appends no user Turn and issues no request.
C4_CommandsNotForwarded ==
    [][(pc = "dispatching" /\ IsCommandInput(user_input)) =>
          /\ pc' \in {"awaiting_input", "exited"}
          /\ request' = NoRequest
          /\ Len(conversation_history') <= Len(conversation_history)
          /\ \A i \in 2..Len(conversation_history') :
                 conversation_history'[i] = conversation_history[i]]_vars

\* C4 witness: /max with an argument that is no number was reported, with a
\* chat Turn in the Conversation and none added.
C4_Witness ==
    /\ pc = "awaiting_input"
    /\ console = Report("invalid literal for int() with base 10")
    /\ Len(conversation_history) >= 2
    /\ Last(conversation_history).role = assistant

\* C5: right after /new or a successful /save the Conversation is the system
\* Turn alone, with the content it had before the command.
C5_ResetKeepsSystemTurn ==
    [][(pc = "dispatching"
            /\ console' \in {Shown("Conversation appended to log"),
                             Shown("Conversation history cleared.")}) =>
          conversation_history' = <<Turn(system, conversation_history[1].content)>>]_vars

\* C5 witness: a conversation of three Turns or more, under a system prompt
\* that /sys had set, was saved and reset.
C5_Witness ==
    /\ console = Shown("Conversation appended to log")
    /\ conversation_history = <<Turn(system, <<"\"", "\\", "U+00E9">>)>>
    /\ StampStarts(file) # {}
    /\ LastSection(file).ok
    /\ Len(LastSection(file).val) >= 3

\* C6 as claimed: after a line that begins with /sys the system Turn holds
\* everything after the token, trimmed, and the other Turns are as before.
C6_SysSetsTrimmedArgument ==
    [][(pc = "dispatching" /\ StartsWith(user_input, CmdSys)
            /\ console' = Shown("System prompt changed to")) =>
          /\ conversation_history'[1].content =
                 Strip(SliceFrom(user_input, Len(CmdSys)))
          /\ Len(conversation_history') = Len(conversation_history)
          /\ \A i \in 2..Len(conversation_history) :
                 conversation_history'[i] = conversation_history[i]]_vars

\* C7: /temp or /max with an argument that is no number reports an error,
\* keeps the Configuration and the Conversation, and the loop awaits input.
C7_BadNumberKeepsState ==
    [][(/\ pc = "dispatching"
        /\ console' # Shown("Interrupted!")
        /\ \/ StartsWith(user_input, CmdTemp) /\ NonNumeric(SliceFrom(user_input, Len(CmdTemp)))
           \/ StartsWith(user_input, CmdMax) /\ NonNumeric(SliceFrom(user_input, Len(CmdMax)))) =>
          /\ console' \in ErrorReports
          /\ config' = config
          /\ conversation_history' = conversation_history
          /\ pc' = "awaiting_input"]_vars

\* C7 witness: /temp abc was reported while temperature and max_tokens held
\* values that earlier commands had set.
C7_Witness ==
    /\ pc = "awaiting_input"
    /\ console = Report("could not convert string to float")
    /\ config.temperature = Normal(5, -1)
    /\ config.max_tokens = 9

\* C8 as claimed: after a failed request the Conversation is what it was
\* before the user Turn of the failed exchange was appended.
C8_FailureRestoresConversation ==
    [][(pc \in {"awaiting_model", "streaming"} /\ console' = Report(APIError)) =>
          /\ pc' = "awaiting_input"
          /\ conversation_history' = before.history]_vars

\* C8 as amended: after a failed request the error is reported, the loop
\* awaits input, and the Conversation is the one before the input plus the
\* user Turn holding the input, with no assistant Turn after it.
C8_FailureKeepsUserTurn ==
    [][(pc \in {"awaiting_model", "streaming"} /\ console' = Report(APIError)) =>
          /\ pc' = "awaiting_input"
          /\ conversation_history' = Append(before.history, Turn(user, user_input))]_vars

\* C8 witness: a failure was reported and the Conversation ends with the
\* user Turn of the failed exchange.
C8_Witness ==
    /\ pc = "awaiting_input"
    /\ console = Report(APIError)
    /\ Len(conversation_history) >= 2
    /\ Last(conversation_history).role = user

\* C9: the loop leaves only by an exit command or by end-of-input on the
\* first read of a line; a reported error, an interrupt and end-of-input in
\* a continuation all leave it running, the first two at the prompt.
C9_ExitOnlyByCommandOrEndOfInput ==
    [][/\ (pc # "exited" /\ pc' = "exited") =>
            \/ pc = "awaiting_input" /\ console' = Shown("You: ")
            \/ pc = "dispatching" /\ Lower(user_input) \in {CmdExit, CmdQuit, CmdBye}
       /\ (console' \in ErrorReports \cup {Shown("Interrupted!")}) => pc' = "awaiting_input"
       /\ (pc = "continuation") => pc' \in {"continuation", "dispatching", "awaiting_input"}
       /\ (pc = "dispatching" /\ StartsWith(user_input, <<"\\">>)) =>
            pc' \in {"awaiting_model", "awaiting_input"}]_vars

\* C9 witness: a /save that the file system refused was reported, and the
\* loop is at the prompt with the conversation it had.
C9_Witness ==
    /\ pc = "awaiting_input"
    /\ console = Report("[Errno 28] No space left on device")
    /\ Len(conversation_history) >= 2

\* C10: a successful /save leaves what the log held in place, adds one
\* section, and the section read back is the Conversation as it was before
\* the save, system Turn included.
C10_SaveRoundTrip ==
    [][(pc = "dispatching" /\ console' = Shown("Conversation appended to log")) =>
          /\ IsPrefix(file, file')
          /\ Cardinality(StampStarts(file')) = Cardinality(StampStarts(file)) + 1
          /\ SectionOf(SliceFrom(file', Len(file))).ok
          /\ SectionOf(SliceFrom(file', Len(file))).val = conversation_history]_vars

\* C10 witness: a log of two sections or more whose last one holds a
\* conversation with a reply and a system prompt of escaped characters.
C10_Witness ==
    /\ console = Shown("Conversation appended to log")
    /\ Cardinality(StampStarts(file)) >= 2
    /\ LastSection(file).ok
    /\ Len(LastSection(file).val) >= 3
    /\ LastSection(file).val[1].content = <<"\"", "\\", "U+00E9">>
    /\ Last(LastSection(file).val).role = assistant

\* C11 as claimed: in every reachable state, whatever integers /max was
\* given, max_tokens is a positive integer.
C11_MaxTokensPositive ==
    config.max_tokens \in Nat \ {0}

\* C12: /env, /help and empty input leave the Conversation and every field
\* of the Configuration as they are, and /env reports the current system
\* prompt, temperature and max_tokens: the default prompt, 0.8 and 1024 in a
\* fresh session, the latest values after /sys, /temp and /max.
C12_EnvReportsCurrentValues ==
    [][/\ (pc = "dispatching"
            /\ (Lower(user_input) = CmdEnv \/ StartsWith(Lower(user_input), CmdHelp)
                    \/ user_input = <<>>)) =>
            /\ conversation_history' = conversation_history
            /\ config' = config
       /\ (pc = "dispatching" /\ Lower(user_input) = CmdEnv
            /\ console' # Shown("Interrupted!")) =>
            /\ Len(console') = 6
            /\ console'[2] = conversation_history[1].content
            /\ ParseFloat(console'[4]) = [ok |-> TRUE, val |-> config.temperature]
            /\ ParseInt(console'[6]) = [ok |-> TRUE, val |-> config.max_tokens]
            /\ (conversation_history[1].content = DefaultSystemPrompt
                    /\ config = ClaudeConfig) =>
                  console' = <<"System prompt:", DefaultSystemPrompt,
                               "Temperature:", <<"0", ".", "8">>,
                               "Max tokens:", <<"1", "0", "2", "4">>>>]_vars

\* C12 witness: /env has reported the prompt, the temperature and the
\* max_tokens that /sys, /temp and /max had set, and the Configuration
\* holds them.
C12_Witness ==
    /\ pc = "awaiting_input"
    /\ console = <<"System prompt:", <<"p">>,
                   "Temperature:", <<"0", ".", "5">>,
                   "Max tokens:", <<"9">>>>
    /\ config.max_tokens = 9
    /\ config.system_prompt = DefaultSystemPrompt

\* C13: after a failed request the user Turn of the failed exchange is the
\* last Turn, with no assistant Turn after it; an ordinary message sent next
\* makes two user Turns in a row, and the request that follows carries both.
C13_FailedTurnStaysAndIsResent ==
    [][/\ (pc \in {"awaiting_model", "streaming"} /\ console' = Report(APIError)) =>
            /\ Last(conversation_history') = Turn(user, user_input)
            /\ pc' = "awaiting_input"
       /\ (pc = "dispatching" /\ pc' = "awaiting_model"
            /\ Last(conversation_history).role = user) =>
            /\ Len(conversation_history') = Len(conversation_history) + 1
            /\ Last(conversation_history').role = user
            /\ conversation_history'[Len(conversation_history)] =
                   Last(conversation_history)
       /\ (pc = "awaiting_model" /\ pc' = "streaming"
            /\ Len(conversation_history) >= 3
            /\ conversation_history[Len(conversation_history) - 1].role = user) =>
            /\ Len(request'.messages) = Len(conversation_history) - 1
            /\ request'.messages[Len(request'.messages) - 1] =
                   conversation_history[Len(conversation_history) - 1]
            /\ Last(request'.messages) = Last(conversation_history)]_vars

\* C13 witness: a request is out whose two messages are both user Turns,
\* the first left behind by the exchange before.
C13_Witness ==
    /\ pc = "streaming"
    /\ before.history = <<conversation_history[1], Turn(user, LineHi)>>
    /\ conversation_history[3] = Turn(user, <<"\\", "a", "\n", "b">>)
    /\ request.messages = <<Turn(user, LineHi), Turn(user, <<"\\", "a", "\n", "b">>)>>

\* C14: a /save whose write fails before completion leaves the Conversation
\* as it was, every Turn included; the failure is reported and the loop
\* awaits input.
C14_FailedSaveKeepsConversation ==
    [][(pc = "dispatching" /\ Lower(user_input) = CmdSave
            /\ console' # Shown("Conversation appended to log")
            /\ console' # Shown("Interrupted!")) =>
          /\ console' = Report("[Errno 28] No space left on device")
          /\ conversation_history' = conversation_history
          /\ config' = config
          /\ IsPrefix(file, file')
          /\ pc' = "awaiting_input"]_vars

\* C14 witness: a /save stopped half way through its section was reported;
\* the log ends in the middle of a line and the Conversation still holds its
\* user and assistant Turns.
C14_Witness ==
    /\ pc = "awaiting_input"
    /\ console = Report("[Errno 28] No space left on device")
    /\ Len(conversation_history) >= 3
    /\ Last(conversation_history).role = assistant
    /\ file # <<>>
    /\ Last(file) # "\n"

\* C15: an interrupt during the console read, the dispatch, the wait for the
\* model or the stream is caught and the loop awaits input again.  It takes
\* no Turn away and alters none: the Conversation is as it stood when the
\* interrupt arrived (as before the iteration, or as the command under way
\* had left it), and a reply that had arrived only in part is not recorded.
C15_InterruptPreservesConversation ==
    [][(console' = Shown("Interrupted!")) =>
          /\ pc' = "awaiting_input"
          /\ pc \in {"awaiting_input", "continuation"} =>
                conversation_history' = conversation_history
          /\ (pc = "dispatching" /\ ~IsCommandInput(user_input)) =>
                conversation_history' = conversation_history
          /\ (pc = "dispatching" /\ IsCommandInput(user_input)) =>
                \/ conversation_history' = conversation_history
                \/ /\ StartsWith(user_input, CmdSys)
                   /\ conversation_history' =
                          [conversation_history EXCEPT
                              ![1].content = conversation_history'[1].content]
                \/ /\ Lower(user_input) \in {CmdSave, CmdNew}
                   /\ conversation_history' = <<conversation_history[1]>>
          /\ pc \in {"awaiting_model", "streaming"} =>
                /\ Last(before.history \o <<Turn(user, user_input)>>) =
                       conversation_history[Len(before.history) + 1]
                /\ \/ conversation_history' = conversation_history
                   \/ /\ pc = "streaming"
                      /\ consumed = Len(response_stream)
                      /\ conversation_history' =
                             Append(conversation_history,
                                    Turn(assistant,
                                         FragmentText(response_stream) \o <<"\n">>))
          /\ (pc = "streaming" /\ consumed < Len(response_stream)) =>
                conversation_history' = conversation_history]_vars

\* C15 witness: an interrupt was caught; the Conversation holds the prompt
\* /sys had set and the user Turns of two requests, neither with a reply.
C15_Witness ==
    /\ pc = "awaiting_input"
    /\ console = Shown("Interrupted!")
    /\ conversation_history =
           <<Turn(system, <<"p">>), Turn(user, <<"\\", "a", "\n", "b">>),
             Turn(user, LineHi)>>

RECURSIVE LinesWithBreaks(_)
\* The lines in order, a line break between each two.
LinesWithBreaks(ls) ==
    IF Len(ls) = 1 THEN ls[1]
    ELSE LinesWithBreaks(SubSeq(ls, 1, Len(ls) - 1)) \o <<"\n">> \o Last(ls)

\* C16: a first line without a leading backslash is the whole input after
\* one read; a first line with one starts a continuation, which takes every
\* later line whatever it holds, yields an input only at end-of-input, and
\* then yields all lines read, marker line first, joined by line breaks.
C16_MultilineInput ==
    [][/\ (pc = "awaiting_input" /\ pc' = "dispatching") =>
            /\ ~StartsWith(user_input', <<"\\">>)
            /\ lines' = <<>>
            /\ \A i \in 1..Len(user_input') : user_input'[i] # "\n"
       /\ (pc = "awaiting_input" /\ pc' = "continuation") =>
            /\ Len(lines') = 1
            /\ StartsWith(lines'[1], <<"\\">>)
       /\ (pc = "continuation" /\ pc' = "continuation") =>
            /\ Len(lines') = Len(lines) + 1
            /\ SubSeq(lines', 1, Len(lines)) = lines
       /\ (pc = "continuation" /\ pc' # "continuation") =>
            \/ console' = Shown("Interrupted!") /\ pc' = "awaiting_input"
            \/ /\ console' = Shown("<end of input>")
               /\ pc' = "dispatching"
               /\ user_input' = LinesWithBreaks(lines)]_vars

\* C16 witness: after the marker line an empty line, a second marker line
\* or an exit command was typed, and the input holds it as a line.
C16_Witness ==
    /\ pc = "dispatching"
    /\ user_input \in {<<"\\", "a", "\n">>,
                       <<"\\", "a", "\n", "\\", "a">>,
                       <<"\\", "a", "\n", "/", "e", "x", "i", "t">>}

\* One text is the other but for the case of its letters.
IsSpelling(s, t) ==
    /\ Len(s) = Len(t)
    /\ \A i \in 1..Len(s) : UpperChar(s[i]) = UpperChar(t[i])

\* The input begins with /sys, /temp or /max in a spelling that is not the
\* lowercase one.
IsMiscasedArgumentCommand(input) ==
    \E t \in {CmdSys, CmdTemp, CmdMax} :
        /\ Len(input) >= Len(t)
        /\ IsSpelling(SubSeq(input, 1, Len(t)), t)
        /\ SubSeq(input, 1, Len(t)) # t

\* C17: /env, /save, /new, /help, /exit, /quit and /bye are handled as
\* those commands in every letter case; an input that begins with /sys,
\* /temp or /max in another case than lowercase is no command: it changes
\* neither the Configuration nor the system prompt and goes to the model as
\* a user Turn.  Where one such line is dispatched, every other spelling is
\* put to process_commands in the same state.
C17_CaseRules ==
    [][(pc = "dispatching" /\ console' # Shown("Interrupted!")) =>
          /\ IsSpelling(user_input, CmdEnv) =>
                /\ Len(console') = 6
                /\ pc' = "awaiting_input"
          /\ IsSpelling(user_input, CmdSave) =>
                /\ console' \in {Shown("Conversation appended to log"),
                                 Report("[Errno 28] No space left on device")}
                /\ pc' = "awaiting_input"
          /\ IsSpelling(user_input, CmdNew) =>
                /\ console' = Shown("Conversation history cleared.")
                /\ conversation_history' = <<conversation_history[1]>>
                /\ pc' = "awaiting_input"
          /\ IsSpelling(user_input, CmdHelp) =>
                /\ console' = Shown("/help - Show this help")
                /\ pc' = "awaiting_input"
          /\ (\E t \in {CmdExit, CmdQuit, CmdBye} : IsSpelling(user_input, t)) =>
                /\ console' = Shown("Exiting gracefully...")
                /\ pc' = "exited"
          /\ IsMiscasedArgumentCommand(user_input) =>
                /\ pc' = "awaiting_model"
                /\ conversation_history' =
                       Append(conversation_history, Turn(user, user_input))
                /\ config' = config
                /\ \A line \in MiscasedArgumentLines :
                      LET r == process_commands(line, conversation_history, config,
                                                file, Midnight, IoOk)
                      IN  /\ IsMiscasedArgumentCommand(line)
                          /\ r.result = "None"
                          /\ r.history = conversation_history
                          /\ r.shared = conversation_history
                          /\ r.config = config]_vars

\* C17 witness: /SYS x was sent to the model as a user Turn, the default
\* prompt still in place.
C17_Witness ==
    /\ pc = "streaming"
    /\ user_input = <<"/", "S", "Y", "S", " ", "x">>
    /\ request.system = DefaultSystemPrompt
    /\ request.messages = <<Turn(user, user_input)>>

\* C18: every request carries the current content of the system Turn as
\* system instruction, the Turns after it, in order and none of role system,
\* as messages, the last of them the user Turn of the input just entered,
\* and the current max_tokens and temperature; an ordinary input issues one
\* request, and a failure is followed by no second one.
C18_RequestContents ==
    [][/\ (~request.sent /\ request'.sent) =>
            /\ pc = "awaiting_model" /\ pc' = "streaming"
            /\ request'.system = conversation_history[1].content
            /\ request'.messages =
                   SubSeq(conversation_history, 2, Len(conversation_history))
            /\ Len(request'.messages) >= 1
            /\ \A i \in 1..Len(request'.messages) :
                   request'.messages[i].role \in {user, assistant}
            /\ Last(request'.messages) = Turn(user, user_input)
            /\ request'.max_tokens = config.max_tokens
            /\ request'.temperature = config.temperature
            /\ request'.model = config.model
       /\ (request.sent /\ request'.sent) => request' = request
       /\ (pc = "awaiting_model") => pc' \in {"streaming", "awaiting_input"}
       /\ (console' = Report(APIError)) =>
            /\ ~request'.sent
            /\ pc' = "awaiting_input"]_vars

\* C18 witness: a request is out with the prompt /sys set, the temperature
\* /temp set and the max_tokens /max set.
C18_Witness ==
    /\ pc = "streaming"
    /\ request.sent
    /\ request.system = <<"p">>
    /\ request.temperature = Normal(5, -1)
    /\ request.max_tokens = 9
    /\ request.messages = <<Turn(user, LineHi)>>

\* The indices of the Turns of a role.
TurnsOf(role) ==
    {i \in 1..Len(conversation_history) : conversation_history[i].role = role}

\* C19: in every reachable state every assistant Turn comes right after a
\* user Turn: the Turn at index 1 is no assistant Turn, no two assistant
\* Turns are adjacent, and there are no more assistant Turns than user Turns.
C19_AssistantFollowsUser ==
    /\ \A i \in TurnsOf(assistant) :
           i >= 3 /\ conversation_history[i - 1].role = user
    /\ Cardinality(TurnsOf(assistant)) <= Cardinality(TurnsOf(user))

\* C19 witness: two user Turns in a row, then the reply to the second.
C19_Witness ==
    /\ Len(conversation_history) = 4
    /\ conversation_history[2].role = user
    /\ conversation_history[3].role = user
    /\ conversation_history[4].role = assistant

====
